---- MODULE Spec2Model ----
(***************************************************************************)
(* A model of HybridChordDSP (modules/chord-dsp/cpp/HybridChordDSP.cpp):   *)
(* the linear resampler, the lazily built mel filterbank, the mel          *)
(* spectrogram and the chromagram.                                         *)
(*                                                                         *)
(* Number representation.                                                  *)
(*  - A sample rate is an integer count of half hertz, so that 22050.5 Hz  *)
(*    (44101) is a rate; ToInt is the static_cast<int> of the code.        *)
(*  - A sample is an integer count of 1/One, One = 2 * kTargetSampleRate,  *)
(*    so that the resampler's in[idx0]*(1-frac) + in[idx0+1]*frac, whose   *)
(*    frac is a multiple of 1/One, is computed exactly.                    *)
(*  - A float that is NaN is the integer NaN, outside every other range.   *)
(*  - The correlation sums re and im of a frame (cpp:141-147) need cos and *)
(*    sin: a frame whose windowed samples are all zero has re = im = 0 in  *)
(*    every bin, a frame holding a NaN has NaN in every bin, and any other *)
(*    frame has the sparse spectrum of Spectra chosen with the input.      *)
(*  - Energies (magnitudes, filterbank dot products) are integers; the     *)
(*    unit of a dot product is the 1e-10f of the log floor.                *)
(***************************************************************************)
EXTENDS Integers, Sequences, FiniteSets, TLC

VARIABLES
    backend,                \* "portable" | "accelerate": the #ifdef __APPLE__ build
    samples,                \* the argument `samples` of the calls
    sampleRate,             \* the argument `sampleRate`, in half hertz
    spectrum,               \* the spectrum of the frames of `samples` that are not silent
    filterBankInitialized_, \* hpp:38
    melFilterbank_,         \* hpp:37, one entry per row: "zero" | "tri"
    buildCount,             \* how often the body of initMelFilterbank ran
    op,                     \* the last call: "none" | "resample" | "mel" | "chroma"
    result,                 \* what the last call returned
    audio,                  \* the buffer the last call analysed
    framesAnalysed,         \* number of frames the last call analysed
    maxSampleIndex,         \* highest index read from that buffer, -1 if none
    maxResultIndex,         \* highest index written to the result, -1 if none
    resampled,              \* whether the last call ran resampleTo22050
    frameDfts,              \* the correlation sums of each analysed frame
    magnitudes,             \* the power spectrum of the last analysed frame
    chroma,                 \* the 12 totals before the normalisation
    pitchClasses,           \* the chroma indices the last call used
    pc,                     \* per thread: position in computeMelSpectrogram
    row,                    \* per thread: loop variable m of initMelFilterbank
    serialized,             \* whether the callers serialize their calls
    overlapped              \* whether two threads were in the build at once

vars == << backend, samples, sampleRate, spectrum,
           filterBankInitialized_, melFilterbank_,
           buildCount, op, result, audio, framesAnalysed, maxSampleIndex,
           maxResultIndex, resampled, frameDfts, magnitudes, chroma,
           pitchClasses, pc, row, serialized, overlapped >>

callVars == << op, result, audio, framesAnalysed, maxSampleIndex,
               maxResultIndex, resampled, frameDfts, magnitudes, chroma,
               pitchClasses >>

threadVars == << pc, row, serialized, overlapped >>

-----------------------------------------------------------------------------
(* Program constants, HybridChordDSP.hpp:30-33 *)
kTargetSampleRate == 22050
kFFTSize == 2048
kHopSize == 512
kMelBins == 229
(* the 12 of std::vector<double>(12, 0.0), cpp:166 *)
kPitchClasses == 12
(* the 1e-10f of cpp:156, in the unit of a filterbank dot product *)
kLogFloor == 1
(* the 60.0f and 2000.0f of cpp:231 *)
kChromaMinFreq == 60
kChromaMaxFreq == 2000

fftBins == kFFTSize \div 2 + 1

(* Bounds of the inputs: the longest input whose samples are enumerated,  *)
(* and the number of frames of the longest framed input                    *)
MaxLen == 3
MaxFrames == 2

One == 2 * kTargetSampleRate
NaN == 0 - One * One

IsNaN(x) == x = NaN

Max(a, b) == IF a < b THEN b ELSE a

(* static_cast<int>(sampleRate) of a rate in half hertz *)
ToInt(rate) == rate \div 2

(* the / of two ints in C++: the quotient truncated towards zero *)
CDiv(a, b) == IF a >= 0 THEN a \div b ELSE 0 - ((0 - a) \div b)

(* std::ceil of the real a / b, b > 0, a >= 0 *)
CeilDiv(a, b) == (a + b - 1) \div b

(* a std::vector holding f[1], ..., f[n], as a sequence *)
Vector(f) == f \o << >>

-----------------------------------------------------------------------------
(* resampleTo22050, cpp:57-79 *)

(* A faulty interpolation, the two weights exchanged *)
OutputSampleSwapped(in, sourceSampleRate, i) ==
    LET idx0 == (i * sourceSampleRate) \div One
        frac == (i * sourceSampleRate) % One
    IN  IF idx0 + 1 < Len(in)
        THEN (in[idx0 + 1] * frac + in[idx0 + 2] * (One - frac)) \div One
        ELSE IF idx0 < Len(in) THEN in[idx0 + 1] ELSE 0

(* cpp:67-75: output[i] for 0 <= i < outputLen; srcIdx = i / ratio is the  *)
(* rational i * sourceSampleRate / One.                                    *)
OutputSample(in, sourceSampleRate, i) ==
    LET idx0 == (i * sourceSampleRate) \div One
        frac == (i * sourceSampleRate) % One      \* in units of 1/One
    IN  IF idx0 + 1 < Len(in)
        THEN (in[idx0 + 1] * (One - frac) + in[idx0 + 2] * frac) \div One
        ELSE IF idx0 < Len(in) THEN in[idx0 + 1] ELSE 0

(* cpp:58 *)
RateIsTarget(sourceSampleRate) == ToInt(sourceSampleRate) = kTargetSampleRate

(* A faulty length, rounded down *)
OutputLenFloor(n, sourceSampleRate) == (n * One) \div sourceSampleRate

(* cpp:62-63 *)
OutputLen(n, sourceSampleRate) == CeilDiv(n * One, sourceSampleRate)

resampleTo22050(in, sourceSampleRate) ==
    IF RateIsTarget(sourceSampleRate)
    THEN in
    ELSE Vector([ j \in 1..OutputLen(Len(in), sourceSampleRate) |->
                    OutputSample(in, sourceSampleRate, j - 1) ])

-----------------------------------------------------------------------------
(* initMelFilterbank, cpp:19-55 *)

(* cpp:23-35: binFreqs[0..kMelBins+1], the kMelBins + 2 points evenly      *)
(* spaced between hzToMel(30) and hzToMel(11025), each taken back through  *)
(* melToHz and scaled by kFFTSize / kTargetSampleRate, evaluated in float  *)
(* and written in thousandths of a bin (binFreqs[0] = 2.786...,            *)
(* binFreqs[230] = 1024.0).                                                *)
binFreqs ==
  << 2786, 3610, 4443, 5287, 6141, 7005, 7879, 8765, 9661, 10568, 11486,
     12415, 13355, 14307, 15270, 16245, 17232, 18231, 19242, 20265, 21301,
     22349, 23410, 24484, 25571, 26671, 27785, 28912, 30052, 31207, 32376,
     33558, 34756, 35967, 37194, 38435, 39691, 40963, 42250, 43553, 44871,
     46206, 47557, 48924, 50307, 51708, 53126, 54560, 56013, 57482, 58970,
     60476, 62000, 63542, 65104, 66684, 68283, 69902, 71541, 73199, 74878,
     76577, 78296, 80037, 81798, 83581, 85386, 87213, 89061, 90933, 92827,
     94743, 96684, 98647, 100635, 102647, 104683, 106744, 108830, 110941,
     113078, 115241, 117430, 119646, 121889, 124158, 126456, 128781, 131135,
     133517, 135928, 138369, 140839, 143339, 145869, 148430, 151022, 153646,
     156302, 158989, 161710, 164463, 167250, 170071, 172926, 175816, 178741,
     181701, 184697, 187730, 190799, 193906, 197051, 200233, 203455, 206715,
     210015, 213355, 216736, 220158, 223621, 227127, 230675, 234266, 237900,
     241579, 245302, 249071, 252886, 256746, 260654, 264609, 268612, 272664,
     276765, 280916, 285117, 289369, 293673, 298029, 302438, 306901, 311418,
     315989, 320617, 325300, 330040, 334838, 339694, 344609, 349584, 354619,
     359715, 364873, 370094, 375379, 380727, 386140, 391620, 397165, 402778,
     408459, 414209, 420029, 425920, 431882, 437917, 444025, 450207, 456464,
     462797, 469208, 475695, 482262, 488909, 495636, 502445, 509336, 516312,
     523371, 530517, 537750, 545070, 552479, 559979, 567569, 575251, 583027,
     590897, 598863, 606926, 615086, 623346, 631706, 640167, 648731, 657399,
     666173, 675053, 684041, 693138, 702345, 711664, 721097, 730644, 740307,
     750087, 759986, 770006, 780147, 790411, 800800, 811315, 821958, 832729,
     843632, 854667, 865836, 877142, 888583, 900165, 911886, 923750, 935758,
     947913, 960214, 972665, 985267, 998023, 1010933, 1024000 >>

Milli == 10 * 10 * 10

(* cpp:40-50: the weight written to melFilterbank_[m][k], in thousandths;  *)
(* 0 is the value the resize of cpp:37 left there.                         *)
TriangleWeight(m, k) ==
    LET left   == binFreqs[m + 1]
        center == binFreqs[m + 2]
        right  == binFreqs[m + 3]
        fk     == k * Milli
    IN  IF fk >= left /\ fk <= center /\ center > left
        THEN ((fk - left) * Milli) \div (center - left)
        ELSE IF fk > center /\ fk <= right /\ right > center
             THEN ((right - fk) * Milli) \div (right - center)
             ELSE 0

(* cpp:37: the rows after the resize, none written yet *)
ResizedFilterbank(fb) ==
    Vector([ m \in 1..kMelBins |-> IF m <= Len(fb) THEN fb[m] ELSE "zero" ])

(* cpp:39-52, row m written *)
RowWritten(fb, m) == [ fb EXCEPT ![m + 1] = "tri" ]

(* cpp:37-52, the whole construction *)
BuiltFilterbank(fb) == Vector([ m \in 1..kMelBins |-> "tri" ])

(* Faulty guards: one that builds on every call, one that is inverted *)
MustBuildAlways(initialized) == TRUE

MustBuildInverted(initialized) == initialized

(* cpp:20: whether the call goes on to build *)
MustBuild(initialized) == ~initialized

(* melFilterbank_[m][k] as the projection reads it (cpp:154); a row that   *)
(* does not exist is an out-of-bounds read.                                *)
FilterbankAt(fb, m, k) ==
    IF m + 1 > Len(fb) THEN NaN
    ELSE IF fb[m + 1] = "tri" THEN TriangleWeight(m, k) ELSE 0

-----------------------------------------------------------------------------
(* Frames and their spectra *)

(* The sparse spectra a frame that is not silent may have: re and im at   *)
(* the bins where they are not zero.  At 22050 Hz bin 3 is 32 Hz, bin 41   *)
(* is 441 Hz, bin 49 is 528 Hz and bin 200 is 2153 Hz; bin 0 is the mean   *)
(* and bin kFFTSize / 2 the Nyquist frequency.                             *)
Spectra ==
    { (0 :> [re |-> 64, im |-> 0]) @@ (3 :> [re |-> 64, im |-> 64])
        @@ (200 :> [re |-> 0, im |-> 128]),
      (41 :> [re |-> 128, im |-> 64]) @@ (49 :> [re |-> 0, im |-> 64])
        @@ ((kFFTSize \div 2) :> [re |-> 128, im |-> 0]) }

SilentDft == [nan |-> FALSE, comps |-> << >>]
NaNDft == [nan |-> TRUE, comps |-> << >>]

(* what buf[i] yields: the sample, or whatever lies behind the buffer *)
SampleAt(buf, i, garbage) ==
    IF i < Len(buf) THEN buf[i + 1] ELSE garbage

(* cpp:100: window[i] is 0 exactly at i = 0 and i = kFFTSize - 1 *)
WindowIsZero(i) == i = 0 \/ i = kFFTSize - 1

(* cpp:141-147: the correlation sums of the frame at `offset` *)
FrameDft(buf, offset, garbage, tone) ==
    IF \E n \in 0..(kFFTSize - 1) : IsNaN(SampleAt(buf, offset + n, garbage))
    THEN NaNDft
    ELSE IF \A n \in 0..(kFFTSize - 1) :
               WindowIsZero(n) \/ SampleAt(buf, offset + n, garbage) = 0
         THEN SilentDft
         ELSE [nan |-> FALSE, comps |-> tone]

Re(dft, k) == IF k \in DOMAIN dft.comps THEN dft.comps[k].re ELSE 0

Im(dft, k) == IF k \in DOMAIN dft.comps THEN dft.comps[k].im ELSE 0

(* cpp:148 and cpp:228: the portable power of bin k *)
PortableMagnitude(dft, k) ==
    IF dft.nan THEN NaN
    ELSE (Re(dft, k) * Re(dft, k) + Im(dft, k) * Im(dft, k)) \div kFFTSize

(* cpp:120-121: realPart[k] and imagPart[k] after vDSP_ctoz and            *)
(* vDSP_fft_zrip.  The packed real FFT holds twice the transform in        *)
(* elements 0..kFFTSize/2-1, with the Nyquist bin in imagPart[0]; element  *)
(* kFFTSize/2 of the two kFFTSize-long buffers is never written.           *)
SplitReal(dft, k) ==
    IF k >= kFFTSize \div 2 THEN 0 ELSE 2 * Re(dft, k)

SplitImag(dft, k) ==
    IF k >= kFFTSize \div 2 THEN 0
    ELSE IF k = 0 THEN 2 * Re(dft, kFFTSize \div 2) ELSE 2 * Im(dft, k)

(* cpp:123-125: vDSP_zvmags then vDSP_vsmul by 1 / (2 * kFFTSize) *)
AccelerateMagnitude(dft, k) ==
    IF dft.nan
    THEN IF k >= kFFTSize \div 2 THEN 0 ELSE NaN
    ELSE (SplitReal(dft, k) * SplitReal(dft, k)
          + SplitImag(dft, k) * SplitImag(dft, k)) \div (2 * kFFTSize)

Magnitude(build, dft, k) ==
    IF build = "accelerate" THEN AccelerateMagnitude(dft, k)
    ELSE PortableMagnitude(dft, k)

(* the bins of a frame whose magnitude is not zero *)
Support(build, dft) ==
    IF dft.nan THEN 0..(fftBins - 1)
    ELSE { k \in DOMAIN dft.comps \cup {0} : Magnitude(build, dft, k) # 0 }

-----------------------------------------------------------------------------
(* computeMelSpectrogram, cpp:81-162 *)

(* a < b on floats: false when either is NaN *)
FLess(a, b) == ~IsNaN(a) /\ ~IsNaN(b) /\ a < b

(* std::max(a, b): (a < b) ? b : a *)
StdMax(a, b) == IF FLess(a, b) THEN b ELSE a

(* std::log(x) is kept symbolic: the logarithm of x *)
LogOf(x) == [ln |-> x]

RECURSIVE SumOver(_, _, _, _, _)
SumOver(bins, build, fb, dft, m) ==
    IF bins = {} THEN 0
    ELSE LET k == CHOOSE x \in bins : TRUE
         IN  Magnitude(build, dft, k) * FilterbankAt(fb, m, k)
             + SumOver(bins \ {k}, build, fb, dft, m)

(* cpp:152-155 and the vDSP_dotpr of cpp:129: the sum over every bin k of  *)
(* magnitudes[k] * melFilterbank_[m][k]; the bins of `bins` are those      *)
(* whose magnitude is not zero, and a NaN term makes the sum NaN.          *)
DotProduct(bins, build, fb, dft, m) ==
    IF \E k \in bins :
          IsNaN(Magnitude(build, dft, k)) \/ IsNaN(FilterbankAt(fb, m, k))
    THEN NaN
    ELSE SumOver(bins, build, fb, dft, m)

(* cpp:156 *)
MelValue(sum) == LogOf(StdMax(sum, kLogFloor))

(* cpp:92 *)
MelNumFrames(numSamples) == Max(0, CDiv(numSamples - kFFTSize, kHopSize) + 1)

(* cpp:136-158: result[frame * kMelBins + m] for every frame and m *)
MelResult(numFrames, build, fb, dfts) ==
    Vector([ j \in 1..(numFrames * kMelBins) |->
        LET dft == dfts[(j - 1) \div kMelBins + 1]
        IN  MelValue(DotProduct(Support(build, dft), build, fb, dft,
                                (j - 1) % kMelBins)) ])

(* cpp:84-89 *)
MelAudio(in, rate) ==
    IF ToInt(rate) # kTargetSampleRate THEN resampleTo22050(in, rate) ELSE in

(* the power spectrum of a frame, bin by bin *)
MagnitudesOf(build, dft, firstBin) ==
    [ k \in firstBin..(fftBins - 1) |-> Magnitude(build, dft, k) ]

-----------------------------------------------------------------------------
(* computeChromagram, cpp:164-248 *)

(* cpp:233-234: static_cast<int>(std::round(69 + 12 * log2(freq / 440))).  *)
(* MidiEdges[j] is the least freq * kFFTSize, a whole number, whose note   *)
(* rounds to 34 + j or more: ceil(kFFTSize * 440 * 2^((34 + j - 69.5)/12)).*)
MidiEdges ==
  << 122835, 130139, 137878, 146077, 154763, 163965, 173715, 184045, 194989,
     206583, 218867, 231882, 245670, 260278, 275755, 292153, 309525, 327930,
     347430, 368089, 389977, 413166, 437734, 463763, 491340, 520556, 551510,
     584305, 619049, 655860, 694859, 736177, 779953, 826331, 875467, 927525,
     982679, 1041112, 1103020, 1168609, 1238098, 1311719, 1389718, 1472354,
     1559905, 1652662, 1750934, 1855050, 1965357, 2082223, 2206039, 2337217,
     2476195, 2623437, 2779435, 2944708, 3119810, 3305323, 3501868, 3710100,
     3930714, 4164446 >>

RECURSIVE EdgesUpTo(_, _)
EdgesUpTo(x, j) ==
    IF j > Len(MidiEdges) \/ MidiEdges[j] > x THEN j - 1 ELSE EdgesUpTo(x, j + 1)

(* the rounded MIDI note of freq = x / kFFTSize, for freq in the band *)
RoundedMidi(x) == 34 + EdgesUpTo(x, 1)

(* cpp:231: freq = k * sr / kFFTSize is kept, not skipped *)
InBand(k, sr) ==
    ~(k * sr < kChromaMinFreq * kFFTSize \/ k * sr > kChromaMaxFreq * kFFTSize)

(* the % of two ints in C++: the sign of the dividend *)
CRem(a, b) == a - b * CDiv(a, b)

(* cpp:234-235 *)
PitchClass(midi) ==
    LET pitchClass == CRem(midi, kPitchClasses)
    IN  IF pitchClass < 0 THEN pitchClass + kPitchClasses ELSE pitchClass

(* cpp:220-238: what one frame adds to chroma[p] *)
RECURSIVE FrameChroma(_, _, _, _, _)
FrameChroma(bins, build, dft, sr, p) ==
    IF bins = {} THEN 0
    ELSE LET k == CHOOSE x \in bins : TRUE
         IN  (IF k >= 1 /\ InBand(k, sr) /\ PitchClass(RoundedMidi(k * sr)) = p
              THEN Magnitude(build, dft, k) ELSE 0)
             + FrameChroma(bins \ {k}, build, dft, sr, p)

(* cpp:217-239: chroma[p] after the frames from `frame` on *)
RECURSIVE ChromaTotal(_, _, _, _, _)
ChromaTotal(frame, build, dfts, sr, p) ==
    IF frame > Len(dfts) THEN 0
    ELSE FrameChroma(Support(build, dfts[frame]), build, dfts[frame], sr, p)
         + ChromaTotal(frame + 1, build, dfts, sr, p)

RECURSIVE GCD(_, _)
GCD(a, b) == IF b = 0 THEN a ELSE GCD(b, a % b)

(* the double v / d, d > 0, as the fraction in lowest terms *)
Ratio(v, d) == << v \div GCD(v, d), d \div GCD(v, d) >>

(* cpp:242 *)
MaxElement(totals) ==
    CHOOSE v \in { totals[p] : p \in DOMAIN totals } :
        \A p \in DOMAIN totals : totals[p] <= v

(* A faulty guard, the comparison inverted *)
MustNormalizeInverted(maxVal) == maxVal < 0

(* cpp:243: whether the totals are divided *)
MustNormalize(maxVal) == maxVal > 0

(* cpp:242-245 *)
Normalized(totals) ==
    LET maxVal == MaxElement(totals)
    IN  IF MustNormalize(maxVal)
        THEN Vector([ j \in 1..kPitchClasses |-> Ratio(totals[j - 1], maxVal) ])
        ELSE Vector([ j \in 1..kPitchClasses |-> Ratio(totals[j - 1], 1) ])

(* A faulty length test, one hop too lenient *)
TooShortByHop(numSamples) == numSamples < kFFTSize - kHopSize

(* cpp:166: the length test *)
TooShort(numSamples) == numSamples < kFFTSize

(* cpp:168 *)
ChromaNumFrames(numSamples) == CDiv(numSamples - kFFTSize, kHopSize) + 1

(* cpp:220-235: the chroma indices the bins of one frame select *)
PitchClassesUsed(sr) ==
    { PitchClass(RoundedMidi(k * sr)) : k \in { x \in 1..(fftBins - 1) : InBand(x, sr) } }

-----------------------------------------------------------------------------
(* The inputs of the calls *)

Vals == {0, One, 0 - One}

ShortInputs == { Vector(in) : in \in UNION { [1..n -> Vals] : n \in 0..MaxLen } }

(* sample i of a long input: silence, a single pulse at the first sample   *)
(* (where the window is zero), or a square wave of period 4                *)
PatternSample(pattern, i) ==
    CASE pattern = "silence" -> 0
      [] pattern = "pulse"   -> IF i = 0 THEN One ELSE 0
      [] pattern = "square"  -> IF i % 4 < 2 THEN One ELSE 0 - One

LongInput(len, pattern) ==
    Vector([ j \in 1..len |-> PatternSample(pattern, j - 1) ])

(* 22050 Hz, 22050.5 Hz, 44100 Hz, 11025 Hz and 48000 Hz, in half hertz *)
Rates == { One, One + 1, 2 * One, One \div 2, 96000 }

(* the inputs of the resampler: every short input at every rate, and an   *)
(* input of 2 * 22050 + 1 samples at 22050 Hz and at 22050.5 Hz            *)
ResampleInputs ==
    (ShortInputs \X Rates)
    \cup ({ LongInput(One + 1, "square") } \X { One, One + 1 })

(* lengths at, just after and just before the start of each frame *)
FrameLens ==
    { kFFTSize + (f - 1) * kHopSize + d :
        f \in 0..MaxFrames, d \in {0, 1, kHopSize - 1} }

(* the inputs of the engine: the frame lengths at 22050 Hz, their doubles  *)
(* at 44100 Hz, silence, a pulse under the zero of the window, half a      *)
(* frame at 11025 Hz, a frame at 22050.5 Hz and the empty input            *)
EngineInputs ==
    { << LongInput(len, "square"), One >> : len \in FrameLens }
    \cup { << LongInput(2 * len, "square"), 2 * One >> : len \in FrameLens }
    \cup { << LongInput(len, "silence"), One >> :
             len \in { kFFTSize - 1, kFFTSize, 2 * kFFTSize } }
    \cup { << LongInput(kFFTSize, "pulse"), One >>,
           << LongInput(kFFTSize \div 2, "square"), One \div 2 >>,
           << LongInput(kFFTSize, "square"), One + 1 >>,
           << << >>, One >> }

(* the spectra the frames of `in` may have *)
SpectraOf(in) ==
    IF \E j \in 1..Len(in) : in[j] # 0 THEN Spectra ELSE { << >> }

(* what a read behind the end of the buffer may yield *)
Garbage == {0, One, NaN}

Threads == {1, 2}

-----------------------------------------------------------------------------
(* The engine, one call at a time *)

ZeroChroma == [ p \in 0..(kPitchClasses - 1) |-> 0 ]

InitEngine ==
    /\ filterBankInitialized_ = FALSE
    /\ melFilterbank_ = << >>
    /\ buildCount = 0
    /\ op = "none"
    /\ result = << >>
    /\ audio = << >>
    /\ framesAnalysed = 0
    /\ maxSampleIndex = 0 - 1
    /\ maxResultIndex = 0 - 1
    /\ resampled = FALSE
    /\ frameDfts = << >>
    /\ magnitudes = << >>
    /\ chroma = ZeroChroma
    /\ pitchClasses = {}
    /\ pc = [ t \in Threads |-> "idle" ]
    /\ row = [ t \in Threads |-> 0 ]
    /\ overlapped = FALSE

Init ==
    /\ backend \in {"portable", "accelerate"}
    /\ \E in \in EngineInputs :
         /\ samples = in[1]
         /\ sampleRate = in[2]
         /\ spectrum \in SpectraOf(in[1])
    /\ serialized = TRUE
    /\ InitEngine

(* the highest index resampleTo22050 reads from its input *)
ResampleMaxIndex(in, rate) ==
    IF RateIsTarget(rate) THEN Len(in) - 1
    ELSE LET outputLen == OutputLen(Len(in), rate)
             idx0 == ((outputLen - 1) * rate) \div One
         IN  IF outputLen = 0 THEN 0 - 1
             ELSE IF idx0 + 1 < Len(in) THEN idx0 + 1 ELSE idx0

Resample ==
    /\ op' = "resample"
    /\ audio' = samples
    /\ result' = resampleTo22050(samples, sampleRate)
    /\ framesAnalysed' = 0
    /\ maxSampleIndex' = ResampleMaxIndex(samples, sampleRate)
    /\ maxResultIndex' = Len(result') - 1
    /\ resampled' = TRUE
    /\ frameDfts' = << >>
    /\ magnitudes' = << >>
    /\ chroma' = ZeroChroma
    /\ pitchClasses' = {}
    /\ UNCHANGED << backend, samples, sampleRate, spectrum,
                    filterBankInitialized_, melFilterbank_, buildCount,
                    threadVars >>

(* what a call may find behind the buffer, when its frames reach there *)
GarbageFor(numSamples, numFrames) ==
    IF numFrames > 0 /\ (numFrames - 1) * kHopSize + kFFTSize > numSamples
    THEN Garbage ELSE {0}

ComputeMel ==
    /\ IF MustBuild(filterBankInitialized_)
       THEN /\ melFilterbank_' = BuiltFilterbank(melFilterbank_)
            /\ filterBankInitialized_' = TRUE
            /\ buildCount' = buildCount + 1
       ELSE UNCHANGED << melFilterbank_, filterBankInitialized_, buildCount >>
    /\ op' = "mel"
    /\ resampled' = (ToInt(sampleRate) # kTargetSampleRate)
    /\ audio' = MelAudio(samples, sampleRate)
    /\ framesAnalysed' = MelNumFrames(Len(audio'))
    /\ \E garbage \in GarbageFor(Len(audio'), framesAnalysed') :
         frameDfts' = Vector([ f \in 1..framesAnalysed' |->
                          FrameDft(audio', (f - 1) * kHopSize, garbage, spectrum) ])
    /\ result' = MelResult(framesAnalysed', backend, melFilterbank_', frameDfts')
    /\ maxSampleIndex' = IF framesAnalysed' = 0 THEN 0 - 1
                         ELSE (framesAnalysed' - 1) * kHopSize + kFFTSize - 1
    /\ maxResultIndex' = framesAnalysed' * kMelBins - 1
    /\ magnitudes' = IF framesAnalysed' = 0 THEN << >>
                     ELSE MagnitudesOf(backend, frameDfts'[framesAnalysed'], 0)
    /\ chroma' = ZeroChroma
    /\ pitchClasses' = {}
    /\ UNCHANGED << backend, samples, sampleRate, spectrum, threadVars >>

ComputeChroma ==
    /\ op' = "chroma"
    /\ resampled' = FALSE
    /\ IF TooShort(Len(samples))
       THEN /\ audio' = samples
            /\ framesAnalysed' = 0
            /\ frameDfts' = << >>
            /\ chroma' = ZeroChroma
            /\ result' = Vector([ j \in 1..kPitchClasses |-> Ratio(0, 1) ])
            /\ magnitudes' = << >>
            /\ pitchClasses' = {}
            /\ maxSampleIndex' = 0 - 1
       ELSE /\ audio' = samples
            /\ framesAnalysed' = ChromaNumFrames(Len(samples))
            /\ frameDfts' = Vector([ f \in 1..framesAnalysed' |->
                                FrameDft(samples, (f - 1) * kHopSize, 0, spectrum) ])
            /\ chroma' = [ p \in 0..(kPitchClasses - 1) |->
                             ChromaTotal(1, backend, frameDfts', ToInt(sampleRate), p) ]
            /\ result' = Normalized(chroma')
            /\ magnitudes' = IF framesAnalysed' > 0
                             THEN MagnitudesOf(backend, frameDfts'[framesAnalysed'],
                                      IF backend = "accelerate" THEN 0 ELSE 1)
                             ELSE << >>
            /\ pitchClasses' = PitchClassesUsed(ToInt(sampleRate))
            /\ maxSampleIndex' = (framesAnalysed' - 1) * kHopSize + kFFTSize - 1
    /\ maxResultIndex' = kPitchClasses - 1
    /\ UNCHANGED << backend, samples, sampleRate, spectrum,
                    filterBankInitialized_, melFilterbank_, buildCount,
                    threadVars >>

Next == Resample \/ ComputeMel \/ ComputeChroma

Spec == Init /\ [][Next]_vars

-----------------------------------------------------------------------------
(* The resampler on its own *)

InitResample ==
    /\ backend = "portable"
    /\ \E in \in ResampleInputs : samples = in[1] /\ sampleRate = in[2]
    /\ spectrum = << >>
    /\ serialized = TRUE
    /\ InitEngine

NextResample == Resample

SpecResample == InitResample /\ [][NextResample]_vars

-----------------------------------------------------------------------------
(* computeMelSpectrogram called from two threads: the steps of             *)
(* initMelFilterbank (cpp:19-55) and the projection that reads the         *)
(* filterbank (cpp:151-157).  When the callers serialize their calls, a    *)
(* call starts only while no other call is running.                        *)

Building(position) == position \in {"resize", "write", "setflag"}

Running(position) == position # "idle"

(* two threads are inside the construction at once *)
TwoBuilders(positions) ==
    \E t \in Threads, u \in Threads : t # u /\ Building(positions[t]) /\ Building(positions[u])

InitRace ==
    /\ backend = "portable"
    /\ samples = << >>
    /\ sampleRate = One
    /\ spectrum = << >>
    /\ serialized \in BOOLEAN
    /\ InitEngine

(* cpp:81: the call starts *)
Enter(t) ==
    /\ pc[t] = "idle"
    /\ serialized => \A u \in Threads : ~Running(pc[u])
    /\ pc' = [pc EXCEPT ![t] = "check"]
    /\ UNCHANGED << backend, samples, sampleRate, spectrum, filterBankInitialized_,
                    melFilterbank_, buildCount, callVars, row, serialized,
                    overlapped >>

(* cpp:20 *)
Check(t) ==
    /\ pc[t] = "check"
    /\ IF MustBuild(filterBankInitialized_)
       THEN /\ pc' = [pc EXCEPT ![t] = "resize"]
            /\ buildCount' = buildCount + 1
       ELSE /\ pc' = [pc EXCEPT ![t] = "project"]
            /\ UNCHANGED buildCount
    /\ overlapped' = (overlapped \/ TwoBuilders(pc'))
    /\ UNCHANGED << backend, samples, sampleRate, spectrum, filterBankInitialized_,
                    melFilterbank_, callVars, row, serialized >>

(* cpp:22-37 *)
Resize(t) ==
    /\ pc[t] = "resize"
    /\ melFilterbank_' = ResizedFilterbank(melFilterbank_)
    /\ row' = [row EXCEPT ![t] = 0]
    /\ pc' = [pc EXCEPT ![t] = "write"]
    /\ UNCHANGED << backend, samples, sampleRate, spectrum, filterBankInitialized_,
                    buildCount, callVars, serialized, overlapped >>

(* cpp:39-52, one pass of the loop over m *)
WriteRow(t) ==
    /\ pc[t] = "write"
    /\ melFilterbank_' = RowWritten(melFilterbank_, row[t])
    /\ IF row[t] + 1 < kMelBins
       THEN /\ row' = [row EXCEPT ![t] = row[t] + 1]
            /\ UNCHANGED pc
       ELSE /\ pc' = [pc EXCEPT ![t] = "setflag"]
            /\ UNCHANGED row
    /\ UNCHANGED << backend, samples, sampleRate, spectrum, filterBankInitialized_,
                    buildCount, callVars, serialized, overlapped >>

(* cpp:54 *)
SetFlag(t) ==
    /\ pc[t] = "setflag"
    /\ filterBankInitialized_' = TRUE
    /\ pc' = [pc EXCEPT ![t] = "project"]
    /\ UNCHANGED << backend, samples, sampleRate, spectrum, melFilterbank_,
                    buildCount, callVars, row, serialized, overlapped >>

(* cpp:151-161: the rows are read, and the call returns *)
Project(t) ==
    /\ pc[t] = "project"
    /\ pc' = [pc EXCEPT ![t] = "idle"]
    /\ UNCHANGED << backend, samples, sampleRate, spectrum, filterBankInitialized_,
                    melFilterbank_, buildCount, callVars, row, serialized,
                    overlapped >>

NextRace ==
    \E t \in Threads :
        \/ Enter(t)
        \/ Check(t)
        \/ Resize(t)
        \/ WriteRow(t)
        \/ SetFlag(t)
        \/ Project(t)

SpecRace == InitRace /\ [][NextRace]_vars

-----------------------------------------------------------------------------
(* Properties *)

(* floor(a / b) + 1 frames, none when that is negative *)
FloorFrames(n) == Max(0, ((n - kFFTSize) \div kHopSize) + 1)

(* C1: after computeMelSpectrogram, with N the length of the analysed      *)
(* buffer, the result holds kMelBins * max(0, floor((N - kFFTSize) /       *)
(* kHopSize) + 1) values, so none when N < kFFTSize.                       *)
C1_MelLength ==
    op = "mel" =>
        /\ Len(result) = kMelBins * FloorFrames(Len(audio))
        /\ Len(audio) < kFFTSize => result = << >>

(* C2: computeChromagram returns 12 elements, each in [0,1]; when a total  *)
(* is greater than 0 every element is its total divided by the greatest    *)
(* total and the greatest element is exactly 1, otherwise every element    *)
(* is 0.                                                                   *)
C2_ChromaNormalized ==
    op = "chroma" =>
        /\ Len(result) = kPitchClasses
        /\ \A j \in 1..Len(result) :
             /\ result[j][2] > 0
             /\ 0 <= result[j][1]
             /\ result[j][1] <= result[j][2]
        /\ IF \E p \in DOMAIN chroma : chroma[p] > 0
           THEN /\ \E j \in 1..Len(result) : result[j] = << 1, 1 >>
                /\ \A j \in 1..Len(result) : \A p \in DOMAIN chroma :
                     chroma[p] * result[j][1] <= chroma[j - 1] * result[j][2]
                /\ \A j \in 1..Len(result) : \E p \in DOMAIN chroma :
                     chroma[p] * result[j][1] = chroma[j - 1] * result[j][2]
           ELSE \A j \in 1..Len(result) : result[j] = << 0, 1 >>

(* C2 witness: a chromagram with a total above 0 and an element strictly   *)
(* between 0 and 1                                                         *)
C2_Witness ==
    /\ op = "chroma"
    /\ \E p \in DOMAIN chroma : chroma[p] > 0
    /\ \E j \in 1..Len(result) : 0 < result[j][1] /\ result[j][1] < result[j][2]

(* C3: computeChromagram of fewer than kFFTSize samples returns 12 zeros,  *)
(* analyses no frame, reads no sample and does not resample, whatever the  *)
(* sample rate.                                                            *)
C3_ShortChroma ==
    (op = "chroma" /\ Len(samples) < kFFTSize) =>
        /\ result = << <<0, 1>>, <<0, 1>>, <<0, 1>>, <<0, 1>>, <<0, 1>>, <<0, 1>>,
                       <<0, 1>>, <<0, 1>>, <<0, 1>>, <<0, 1>>, <<0, 1>>, <<0, 1>> >>
        /\ framesAnalysed = 0
        /\ frameDfts = << >>
        /\ maxSampleIndex < 0
        /\ ~resampled

(* C3 witness: a chromagram of a signal that is not silent, is shorter     *)
(* than a frame, and would fill a frame once resampled to 22050 Hz         *)
C3_Witness ==
    /\ op = "chroma"
    /\ Len(samples) < kFFTSize
    /\ \E j \in 1..Len(samples) : samples[j] # 0
    /\ (Len(samples) * One) \div sampleRate >= kFFTSize

(* in[idx0]*(1-frac) + in[idx0+1]*frac at srcIdx = i * rate / One *)
Interpolated(in, rate, i) ==
    LET idx0 == (i * rate) \div One
        num  == (i * rate) - idx0 * One
    IN  IF idx0 + 1 < Len(in)
        THEN (in[idx0 + 1] * One - in[idx0 + 1] * num + in[idx0 + 2] * num) \div One
        ELSE IF idx0 < Len(in) THEN in[idx0 + 1] ELSE 0

(* the least whole number that is at least a / b *)
Ceiling(a, b) == IF a % b = 0 THEN a \div b ELSE (a \div b) + 1

(* C4 as stated: at every source rate, the length of the resampled         *)
(* sequence is ceil(len * 22050 / rate).                                   *)
C4_LengthAnyRate ==
    op = "resample" => Len(result) = Ceiling(Len(samples) * One, sampleRate)

(* C4: the length of the resampled sequence is the length of the input     *)
(* when the whole part of the rate is 22050, and ceil(len * 22050 / rate)  *)
(* at every other rate.                                                    *)
C4_Length ==
    op = "resample" =>
        Len(result) = IF sampleRate \div 2 = kTargetSampleRate
                      THEN Len(samples)
                      ELSE Ceiling(Len(samples) * One, sampleRate)

(* C4 witness: 44101 samples resampled from 22050.5 Hz, where              *)
(* ceil(len * 22050 / rate) is 44100                                       *)
C4_Witness ==
    /\ op = "resample"
    /\ sampleRate = One + 1
    /\ Len(result) = One + 1
    /\ Ceiling(Len(samples) * One, sampleRate) = One

(* C5 as stated: the result is the input when the rate is 22050 Hz, and    *)
(* at every other rate each sample is the interpolation formula.           *)
C5_SamplesAnyRate ==
    op = "resample" =>
        IF sampleRate = One
        THEN result = samples
        ELSE \A j \in 1..Len(result) :
                 result[j] = Interpolated(samples, sampleRate, j - 1)

(* C5: the result is the input when the whole part of the rate is 22050,   *)
(* at every other rate each sample is the interpolation formula, and       *)
(* [0, 1] at 44100 Hz gives the single sample 0.                           *)
C5_Samples ==
    op = "resample" =>
        /\ IF sampleRate \div 2 = kTargetSampleRate
           THEN result = samples
           ELSE \A j \in 1..Len(result) :
                    result[j] = Interpolated(samples, sampleRate, j - 1)
        /\ (samples = << 0, One >> /\ sampleRate = 2 * One) => result = << 0 >>

(* C5 witness: a resampled sequence with a sample strictly between two     *)
(* different neighbours of the input                                       *)
C5_Witness ==
    /\ op = "resample"
    /\ sampleRate \div 2 # kTargetSampleRate
    /\ \E j \in 1..Len(result) :
         LET idx0 == ((j - 1) * sampleRate) \div One
         IN  /\ idx0 + 1 < Len(samples)
             /\ samples[idx0 + 1] < result[j]
             /\ result[j] < samples[idx0 + 2]

(* C6: every value of the mel spectrogram is the logarithm of a finite     *)
(* number that is at least the floor, and the mel spectrogram of 4096      *)
(* zeros at 22050 Hz is 5 * kMelBins times the logarithm of the floor.     *)
C6_MelValuesFinite ==
    op = "mel" =>
        /\ \A j \in 1..Len(result) :
             ~IsNaN(result[j].ln) /\ result[j].ln >= kLogFloor
        /\ (Len(samples) = 2 * kFFTSize /\ sampleRate = One
              /\ \A j \in 1..Len(samples) : samples[j] = 0)
           => /\ Len(result) = 5 * kMelBins
              /\ \A j \in 1..Len(result) : result[j] = [ln |-> kLogFloor]

(* C7: the construction runs at most once; once the filterbank is built    *)
(* no call changes it; and no call but the first computeMelSpectrogram     *)
(* builds or changes it.                                                   *)
C7_BuiltOnce ==
    [][ /\ buildCount' <= 1
        /\ filterBankInitialized_ =>
             /\ melFilterbank_' = melFilterbank_
             /\ filterBankInitialized_'
             /\ buildCount' = buildCount
        /\ op' \in {"resample", "chroma"} =>
             /\ melFilterbank_' = melFilterbank_
             /\ filterBankInitialized_' = filterBankInitialized_
             /\ buildCount' = buildCount
        /\ filterBankInitialized_' =>
             /\ buildCount' = 1
             /\ Len(melFilterbank_') = kMelBins
             /\ \A m \in 1..kMelBins : melFilterbank_'[m] = "tri"
      ]_vars

(* C7 witness: a call other than computeMelSpectrogram has run on an       *)
(* engine whose filterbank is built                                        *)
C7_Witness ==
    /\ filterBankInitialized_
    /\ buildCount = 1
    /\ op \in {"resample", "chroma"}

(* C8: the power spectrum of an analysed frame is (re^2 + im^2) / kFFTSize *)
(* in every bin, whichever backend computed it.                            *)
C8_BackendsAgree ==
    (op \in {"mel", "chroma"} /\ framesAnalysed > 0
       /\ ~frameDfts[framesAnalysed].nan) =>
        \A k \in DOMAIN magnitudes :
            magnitudes[k] =
                (Re(frameDfts[framesAnalysed], k) * Re(frameDfts[framesAnalysed], k)
                 + Im(frameDfts[framesAnalysed], k) * Im(frameDfts[framesAnalysed], k))
                \div kFFTSize

(* C9: when the callers serialize their calls, no two threads are in the   *)
(* construction at once, the construction runs once, and a thread reads    *)
(* the filterbank only when it is complete and no thread is writing it.    *)
C9_SerializedIsSafe ==
    serialized =>
        /\ ~TwoBuilders(pc)
        /\ ~overlapped
        /\ buildCount <= 1
        /\ \A t \in Threads :
             pc[t] = "project" =>
                 /\ Len(melFilterbank_) = kMelBins
                 /\ \A m \in 1..kMelBins : melFilterbank_[m] = "tri"
                 /\ \A u \in Threads : ~Building(pc[u])

(* C9 witness: without serialization both threads passed the check, were   *)
(* in the construction at once, and one reads while the other writes       *)
C9_Witness ==
    /\ ~serialized
    /\ buildCount = 2
    /\ overlapped
    /\ \E t \in Threads, u \in Threads : pc[t] = "project" /\ pc[u] = "write"

(* C10: every sample index a call reads is less than the length of the     *)
(* analysed buffer, every result index is less than the length of the      *)
(* result, and every pitch class lies in 0..11.                            *)
C10_IndicesInBounds ==
    op \in {"mel", "chroma"} =>
        /\ maxSampleIndex < Len(audio)
        /\ maxResultIndex < Len(result)
        /\ \A p \in pitchClasses : 0 <= p /\ p <= 11

====
